---- MODULE Spec2Model ----
(***************************************************************************)
(* Model of scripts/sleep_tracker.py: one run of main().                   *)
(*                                                                         *)
(* Time is counted in whole seconds of local wall-clock time from the      *)
(* midnight that starts day 0 (datetime has microsecond resolution; every  *)
(* comparison of the program is between differences of such instants, so   *)
(* the second is the unit of the model).  The clock is read once per run.  *)
(* gap_hours is the quotient seconds/3600; it is kept as an exact fraction *)
(* [num, den] and compared by cross-multiplication.                        *)
(***************************************************************************)
EXTENDS Integers, Sequences, FiniteSets, TLC

VARIABLES pc, days, gap, all_timestamps, timestamps, k, raw, current,
          periods, summary, out, error, idle

vars == <<pc, days, gap, all_timestamps, timestamps, k, raw, current,
          periods, summary, out, error, idle>>

----------------------------------------------------------------------------
(* Units and program constants *)

Hour == 3600
Day == 86400

DedupWindow == 60
DefaultGap == 3
NumCheckDirs == 3

\* _UTC_OFFSET (local - UTC), here UTC-5
UtcOffset == 0 - 5 * Hour
\* chrome_epoch, placed 10^9 s before the model's origin so that every
\* visit_time stays inside TLC's integers
ChromeEpoch == 0 - 1000 * 1000 * 1000

----------------------------------------------------------------------------
(* Bounds of the model *)

\* directory entries and history rows read by one run, over all adapters
MaxEvents == 3
\* browser history files found by the scan
MaxProfiles == 2

----------------------------------------------------------------------------
(* Environment: the clock, the arguments, the file system *)

\* datetime.now(): day 3, 11:30:00
Now == 3 * Day + 11 * Hour + 30 * 60

T1959 == 2 * Day + 19 * Hour + 59 * 60 + 59
T2000 == 2 * Day + 20 * Hour
T2001 == 2 * Day + 20 * Hour + 60
T0359 == 3 * Day + 3 * Hour + 59 * 60 + 59
T0400 == 3 * Day + 4 * Hour
T0700 == 3 * Day + 7 * Hour

\* modification times the files of the machine can carry
Mtimes == {T1959, T2000, T2001, T0359, T0400, T0700}

\* values of --days and --gap (argparse accepts any int / float)
DaysChoices == {0, 1}
GapChoices == {0, DefaultGap}

SeqsUpTo(S, n) == UNION {[1..m -> S] : m \in 0..n}

\* a directory entry: stat() succeeds with an mtime, or raises OSError
FileEntries ==
    [stat : {"ok"}, mtime : Mtimes] \cup {[stat |-> "OSError", mtime |-> 0]}

\* a directory of at most n entries: missing, or listing it raises, or it
\* lists its entries
DirEnvs ==
    [n \in 0..MaxEvents |->
        {[exists |-> FALSE, listing |-> "ok", files |-> <<>>]}
        \cup {[exists |-> TRUE, listing |-> e, files |-> <<>>] :
                  e \in {"PermissionError", "OSError"}}
        \cup {[exists |-> TRUE, listing |-> "ok", files |-> f] :
                  f \in SeqsUpTo(FileEntries, n)}]

\* visit_time values as stored by the browser: UTC, counted from chrome_epoch
ChromeTimes == {t - UtcOffset - ChromeEpoch : t \in Mtimes}

\* a history database of at most n visits: copy/connect/query raises, or it
\* holds visits
DbEnvs ==
    [n \in 0..MaxEvents |->
        {[readable |-> FALSE, visits |-> <<>>]}
        \cup {[readable |-> TRUE, visits |-> v] :
                  v \in SeqsUpTo(ChromeTimes, n)}]

\* outcome of listing the browser's "User Data" directories: it raises, or
\* n history files are found
ScanEnvs == {[listing |-> "PermissionError", found |-> 0]}
            \cup {[listing |-> "ok", found |-> n] : n \in 0..MaxProfiles}

----------------------------------------------------------------------------
(* Helpers of the adapters *)

RECURSIVE insert(_, _)
insert(x, s) ==
    IF s = <<>> THEN <<x>>
    ELSE IF x <= Head(s) THEN <<x>> \o s
    ELSE <<Head(s)>> \o insert(x, Tail(s))

\* sorted(list): ascending
RECURSIVE sorted(_)
sorted(s) == IF s = <<>> THEN <<>> ELSE insert(Head(s), sorted(Tail(s)))

\* cutoff = datetime.now() - timedelta(days=days)
cutoff(d) == Now - d * Day

\* for f in dir.iterdir(): try: mtime = f.stat().st_mtime;
\*   if mtime > cutoff: append  except (OSError, PermissionError): pass
RECURSIVE scan_files(_, _, _)
scan_files(files, cut, acc) ==
    IF files = <<>> THEN acc
    ELSE LET f == Head(files)
         IN  IF f.stat = "ok" /\ f.mtime > cut
             THEN scan_files(Tail(files), cut, Append(acc, f.mtime))
             ELSE scan_files(Tail(files), cut, acc)

Returned(v) == [raised |-> "none", value |-> v]
Raised(e) == [raised |-> e, value |-> <<>>]

\* get_recent_files_activity: the loop over iterdir() is not inside a try
get_recent_files_activity(dir, d) ==
    IF ~dir.exists THEN Returned(sorted(<<>>))
    ELSE IF dir.listing # "ok" THEN Raised(dir.listing)
    ELSE Returned(sorted(scan_files(dir.files, cutoff(d), <<>>)))

\* get_prefetch_activity: the loop is inside try ... except PermissionError
get_prefetch_activity(dir, d) ==
    IF ~dir.exists THEN Returned(sorted(<<>>))
    ELSE IF dir.listing = "PermissionError" THEN Returned(sorted(<<>>))
    ELSE IF dir.listing # "ok" THEN Raised(dir.listing)
    ELSE Returned(sorted(scan_files(dir.files, cutoff(d), <<>>)))

\* one iteration of "for d in check_dirs" of get_user_dir_activity
user_dir_step(dir, d, acc) ==
    IF ~dir.exists THEN Returned(acc)
    ELSE IF dir.listing = "PermissionError" THEN Returned(acc)
    ELSE IF dir.listing # "ok" THEN Raised(dir.listing)
    ELSE Returned(scan_files(dir.files, cutoff(d), acc))

\* cutoff_chrome = (cutoff - _UTC_OFFSET) - chrome_epoch
cutoff_chrome(d) == (cutoff(d) - UtcOffset) - ChromeEpoch

\* visit_time = chrome_epoch + timedelta(row[0]) + _UTC_OFFSET
visit_time(row) == (ChromeEpoch + row) + UtcOffset

\* SELECT visit_time FROM visits WHERE visit_time > ? ORDER BY visit_time
query_visits(visits, cut) ==
    LET RECURSIVE where(_)
        where(v) == IF v = <<>> THEN <<>>
                    ELSE IF Head(v) > cut THEN <<Head(v)>> \o where(Tail(v))
                    ELSE where(Tail(v))
    IN  sorted(where(visits))

RECURSIVE convert_rows(_, _)
convert_rows(rows, acc) ==
    IF rows = <<>> THEN acc
    ELSE convert_rows(Tail(rows), Append(acc, visit_time(Head(rows))))

\* one iteration of "for name, history_file in chrome_dirs":
\* any exception is caught and reported
chrome_db_step(db, d, acc) ==
    IF db.readable
    THEN convert_rows(query_visits(db.visits, cutoff_chrome(d)), acc)
    ELSE acc

----------------------------------------------------------------------------
(* get_idle_time, lines 52-67 *)

\* A DWORD is kept as its two 16-bit halves [hi, lo], a Python int as
\* [hi, lo] with hi any integer: the value is hi * 2^16 + lo.
Half == 256 * 256

Word(h, l) == [hi |-> h, lo |-> l]

\* GetTickCount() through ctypes: no restype is set, so the DWORD comes back
\* as a C int
as_c_int(w) == IF w.hi >= Half \div 2 THEN Word(w.hi - Half, w.lo) ELSE w

\* tick - lii.dwTime, on Python ints
int_sub(a, b) ==
    IF a.lo >= b.lo THEN Word(a.hi - b.hi, a.lo - b.lo)
    ELSE Word(a.hi - b.hi - 1, a.lo - b.lo + Half)

no_mask(x) == x

\* x & 0xFFFFFFFF
mask32(x) == Word(x.hi % Half, x.lo)

\* millis = (tick - lii.dwTime) & 0xFFFFFFFF; return millis / 1000.0
get_idle_time(tick, dwTime) ==
    [num |-> mask32(int_sub(as_c_int(tick), dwTime)), den |-> 1000]

\* the tick counter of the system, a DWORD that wraps: its value when
\* `elapsed` milliseconds have passed since it read `last`
tick_after(last, elapsed) ==
    LET l == last.lo + elapsed.lo
        c == IF l >= Half THEN 1 ELSE 0
    IN  Word((last.hi + elapsed.hi + c) % Half, l - c * Half)

\* tick of the last input (lii.dwTime)
LastInputs ==
    {Word(0, 0), Word(0, 1000), Word(1, 0), Word(Half \div 2 - 1, Half - 1),
     Word(Half \div 2, 0), Word(Half - 2, 5), Word(Half - 1, Half - 1000),
     Word(Half - 1, Half - 1)}

\* milliseconds since the last input
Elapsed ==
    {Word(0, 0), Word(0, 1), Word(0, 1000), Word(0, Half - 1), Word(1, 0),
     Word(Half \div 2 - 1, Half - 1), Word(Half \div 2, 0),
     Word(Half - 1, Half - 1)}

NoIdle ==
    [dwTime |-> Word(0, 0), elapsed |-> Word(0, 0), tick |-> Word(0, 0),
     seconds |-> [num |-> Word(0, 0), den |-> 1]]

----------------------------------------------------------------------------
(* State *)

NoSummary == [kind |-> "none", shown |-> <<>>]

Init ==
    /\ pc = "recent"
    /\ days \in DaysChoices
    /\ gap \in GapChoices
    /\ all_timestamps = <<>>
    /\ timestamps = <<>>
    /\ k = 0
    /\ raw = <<>>
    /\ current = 0
    /\ periods = <<>>
    /\ summary = NoSummary
    /\ out = {}
    /\ error = "none"
    /\ idle = NoIdle

\* entries the run may still read
Room == MaxEvents - (Len(all_timestamps) + Len(timestamps))

\* an exception nobody catches ends the process: its lists are gone
Crash(e) ==
    /\ pc' = "crashed"
    /\ error' = e
    /\ all_timestamps' = <<>>
    /\ timestamps' = <<>>
    /\ k' = 0
    /\ UNCHANGED <<days, gap, raw, current, periods, summary, out>>

\* main, lines 310-312
RecentFiles ==
    /\ pc = "recent"
    /\ \E dir \in DirEnvs[Room] :
         LET r == get_recent_files_activity(dir, days)
         IN  IF r.raised # "none" THEN Crash(r.raised)
             ELSE /\ all_timestamps' = all_timestamps \o r.value
                  /\ pc' = "chrome"
                  /\ UNCHANGED <<days, gap, timestamps, k, raw, current,
                                 periods, summary, out, error>>
    /\ UNCHANGED idle

\* get_chrome_history, lines 92-124: find the history files
\* (user_data.iterdir() is not inside a try)
ChromeScan ==
    /\ pc = "chrome"
    /\ \E scan \in ScanEnvs :
         IF scan.listing # "ok" THEN Crash(scan.listing)
         ELSE /\ timestamps' = <<>>
              /\ k' = scan.found
              /\ pc' = "chrome_db"
              /\ UNCHANGED <<days, gap, all_timestamps, raw, current, periods,
                             summary, out, error>>
    /\ UNCHANGED idle

\* get_chrome_history, lines 126-150: one history file
ChromeDb ==
    /\ pc = "chrome_db"
    /\ k > 0
    /\ \E db \in DbEnvs[Room] :
         /\ timestamps' = chrome_db_step(db, days, timestamps)
    /\ k' = k - 1
    /\ UNCHANGED <<pc, days, gap, all_timestamps, raw, current, periods,
                   summary, out, error>>
    /\ UNCHANGED idle

\* get_chrome_history line 152, main lines 315-317
ChromeReturn ==
    /\ pc = "chrome_db"
    /\ k = 0
    /\ all_timestamps' = all_timestamps \o sorted(timestamps)
    /\ timestamps' = <<>>
    /\ pc' = "prefetch"
    /\ UNCHANGED <<days, gap, k, raw, current, periods, summary, out, error>>
    /\ UNCHANGED idle

\* main, lines 320-322
Prefetch ==
    /\ pc = "prefetch"
    /\ \E dir \in DirEnvs[Room] :
         LET r == get_prefetch_activity(dir, days)
         IN  IF r.raised # "none" THEN Crash(r.raised)
             ELSE /\ all_timestamps' = all_timestamps \o r.value
                  /\ pc' = "user_dirs"
                  /\ UNCHANGED <<days, gap, timestamps, k, raw, current,
                                 periods, summary, out, error>>
    /\ UNCHANGED idle

\* get_user_dir_activity, lines 180-188
UserDirsStart ==
    /\ pc = "user_dirs"
    /\ timestamps' = <<>>
    /\ k' = NumCheckDirs
    /\ pc' = "user_dirs_loop"
    /\ UNCHANGED <<days, gap, all_timestamps, raw, current, periods, summary,
                   out, error>>
    /\ UNCHANGED idle

\* get_user_dir_activity, lines 190-201: one of check_dirs
UserDir ==
    /\ pc = "user_dirs_loop"
    /\ k > 0
    /\ \E dir \in DirEnvs[Room] :
         LET r == user_dir_step(dir, days, timestamps)
         IN  IF r.raised # "none" THEN Crash(r.raised)
             ELSE /\ timestamps' = r.value
                  /\ k' = k - 1
                  /\ UNCHANGED <<pc, days, gap, all_timestamps, raw, current,
                                 periods, summary, out, error>>
    /\ UNCHANGED idle

\* get_user_dir_activity line 203, main lines 325-327
UserDirsReturn ==
    /\ pc = "user_dirs_loop"
    /\ k = 0
    /\ all_timestamps' = all_timestamps \o sorted(timestamps)
    /\ timestamps' = <<>>
    /\ pc' = "collected"
    /\ UNCHANGED <<days, gap, k, raw, current, periods, summary, out, error>>
    /\ UNCHANGED idle

----------------------------------------------------------------------------
(* Timeline: main, lines 329-343 *)

never_empty(all) == FALSE

fewer_than_two(all) == Len(all) < 2

\* "if not all_timestamps"
no_activity(all) == all = <<>>

unsorted(all) == all

\* all_timestamps.sort()
sort_all(all) == sorted(all)

keep_ts_ge(ts, last) == ts - last >= DedupWindow

keep_any(ts, last) == ts - last >= 0

keep_ts_two_minutes(ts, last) == ts - last > 2 * DedupWindow

\* (ts - deduped[-1]).total_seconds() > 60
keep_ts(ts, last) == ts - last > DedupWindow

RECURSIVE dedup_loop(_, _)
dedup_loop(rest, deduped) ==
    IF rest = <<>> THEN deduped
    ELSE IF keep_ts(Head(rest), deduped[Len(deduped)])
         THEN dedup_loop(Tail(rest), Append(deduped, Head(rest)))
         ELSE dedup_loop(Tail(rest), deduped)

RECURSIVE pairwise_loop(_, _, _)
pairwise_loop(all, i, deduped) ==
    IF i > Len(all) THEN deduped
    ELSE IF keep_ts(all[i], all[i - 1])
         THEN pairwise_loop(all, i + 1, Append(deduped, all[i]))
         ELSE pairwise_loop(all, i + 1, deduped)

dedup_pairwise(all) == pairwise_loop(all, 2, <<all[1]>>)

\* deduped = [all_timestamps[0]]; for ts in all_timestamps[1:]: ...
dedup(all) == dedup_loop(Tail(all), <<all[1]>>)

\* main, lines 329-331
NoData ==
    /\ pc = "collected"
    /\ no_activity(all_timestamps)
    /\ out' = out \cup {"no_activity_data"}
    /\ pc' = "done"
    /\ UNCHANGED <<days, gap, all_timestamps, timestamps, k, raw, current,
                   periods, summary, error>>
    /\ UNCHANGED idle

\* main, lines 333-343; all_timestamps[0] of an empty list raises IndexError
Aggregate ==
    /\ pc = "collected"
    /\ ~no_activity(all_timestamps)
    /\ raw' = sort_all(all_timestamps)
    /\ IF raw' = <<>>
       THEN /\ pc' = "crashed"
            /\ error' = "IndexError"
            /\ UNCHANGED <<all_timestamps, out>>
       ELSE /\ all_timestamps' = dedup(raw')
            /\ out' = out \cup {"total_unique"}
            /\ pc' = "heatmap"
            /\ UNCHANGED error
    /\ UNCHANGED <<days, gap, timestamps, k, current, periods, summary>>
    /\ UNCHANGED idle

----------------------------------------------------------------------------
(* print_heatmap, lines 238-280 *)

\* start.replace(minute=0, second=0, microsecond=0)
truncate_hour(t) == t - (t % Hour)

same_hour(t) == t

\* current += timedelta(hours=1)
next_hour(t) == t + Hour

\* lines 240-258
HeatmapStart ==
    /\ pc = "heatmap"
    /\ IF all_timestamps = <<>>
       THEN pc' = "find" /\ UNCHANGED current
       ELSE pc' = "heatmap_loop" /\ current' = truncate_hour(Now - days * Day)
    /\ UNCHANGED <<days, gap, all_timestamps, timestamps, k, raw, periods,
                   summary, out, error>>
    /\ UNCHANGED idle

\* lines 259-280: one row
HeatmapRow ==
    /\ pc = "heatmap_loop"
    /\ current <= Now
    /\ current' = next_hour(current)
    /\ UNCHANGED <<pc, days, gap, all_timestamps, timestamps, k, raw, periods,
                   summary, out, error>>
    /\ UNCHANGED idle

HeatmapEnd ==
    /\ pc = "heatmap_loop"
    /\ ~(current <= Now)
    /\ pc' = "find"
    /\ UNCHANGED <<days, gap, all_timestamps, timestamps, k, raw, current,
                   periods, summary, out, error>>
    /\ UNCHANGED idle

----------------------------------------------------------------------------
(* find_sleep_periods, lines 207-235 *)

\* hour field of a timestamp
hour_of(t) == (t \div Hour) % 24

\* gap.total_seconds() / 3600
gap_hours(later, earlier) == [num |-> later - earlier, den |-> Hour]

gap_exceeds(gh, min_gap_hours) == gh.num > min_gap_hours * gh.den

\* gap_hours >= min_gap_hours
gap_qualifies(gh, min_gap_hours) == gh.num >= min_gap_hours * gh.den

is_night_heatmap(start_hour) == start_hour >= 22 \/ start_hour < 7

\* is_night = start_hour >= 20 or start_hour < 4
is_night(start_hour) == start_hour >= 20 \/ start_hour < 4

\* periods.append({...}), lines 228-233
period(sleep_start, wake_time, gh) ==
    [sleep_at |-> sleep_start,
     wake_at |-> wake_time,
     duration_hours |-> gh,
     is_likely_sleep |-> is_night(hour_of(sleep_start))]

RECURSIVE scan_gaps_prepend(_, _, _, _)
scan_gaps_prepend(ts, min_gap_hours, i, acc) ==
    IF i > Len(ts) THEN acc
    ELSE LET gh == gap_hours(ts[i], ts[i - 1])
         IN  IF gap_qualifies(gh, min_gap_hours)
             THEN scan_gaps_prepend(ts, min_gap_hours, i + 1,
                      <<period(ts[i - 1], ts[i], gh)>> \o acc)
             ELSE scan_gaps_prepend(ts, min_gap_hours, i + 1, acc)

RECURSIVE scan_gaps_from_first(_, _, _, _)
scan_gaps_from_first(ts, min_gap_hours, i, acc) ==
    IF i > Len(ts) THEN acc
    ELSE LET gh == gap_hours(ts[i], ts[1])
         IN  IF gap_qualifies(gh, min_gap_hours)
             THEN scan_gaps_from_first(ts, min_gap_hours, i + 1,
                      Append(acc, period(ts[1], ts[i], gh)))
             ELSE scan_gaps_from_first(ts, min_gap_hours, i + 1, acc)

RECURSIVE scan_gaps(_, _, _, _)
\* for i in range(1, len(all_timestamps)): ...   (i is 1-based here)
scan_gaps(ts, min_gap_hours, i, acc) ==
    IF i > Len(ts) THEN acc
    ELSE LET gh == gap_hours(ts[i], ts[i - 1])
         IN  IF gap_qualifies(gh, min_gap_hours)
             THEN scan_gaps(ts, min_gap_hours, i + 1,
                      Append(acc, period(ts[i - 1], ts[i], gh)))
             ELSE scan_gaps(ts, min_gap_hours, i + 1, acc)

find_sleep_periods(ts, min_gap_hours) ==
    IF Len(ts) < 2 THEN <<>> ELSE scan_gaps(ts, min_gap_hours, 2, <<>>)

\* main, lines 350-368
FindPeriods ==
    /\ pc = "find"
    /\ periods' = find_sleep_periods(all_timestamps, gap)
    /\ out' = out \cup {IF periods' = <<>> THEN "no_gaps" ELSE "period_listing"}
    /\ pc' = "summary"
    /\ UNCHANGED <<days, gap, all_timestamps, timestamps, k, raw, current,
                   summary, error>>
    /\ UNCHANGED idle

----------------------------------------------------------------------------
(* Last night summary: main, lines 370-398 *)

likely_sleep(p) == p.is_likely_sleep

\* hours = int(duration_hours); mins = int((duration_hours - hours) * 60)
shown(p) ==
    LET hours == p.duration_hours.num \div p.duration_hours.den
        mins == ((p.duration_hours.num - hours * p.duration_hours.den) * 60)
                    \div p.duration_hours.den
    IN  [stopped |-> p.sleep_at, resumed |-> p.wake_at,
         hours |-> hours, mins |-> mins]

first_of(ps) == ps[1]

\* last_sleep = night_periods[-1]; last = periods[-1]
last_of(ps) == ps[Len(ps)]

last_night(ps) ==
    LET night_periods == SelectSeq(ps, likely_sleep)
    IN  IF night_periods # <<>>
        THEN [kind |-> "sleep", shown |-> <<shown(last_of(night_periods))>>]
        ELSE IF ps # <<>>
        THEN [kind |-> "idle", shown |-> <<shown(last_of(ps))>>]
        ELSE [kind |-> "undetermined", shown |-> <<>>]

Summary ==
    /\ pc = "summary"
    /\ summary' = last_night(periods)
    /\ pc' = "done"
    /\ UNCHANGED <<days, gap, all_timestamps, timestamps, k, raw, current,
                   periods, out, error>>
    /\ UNCHANGED idle

----------------------------------------------------------------------------

Next ==
    \/ RecentFiles
    \/ ChromeScan
    \/ ChromeDb
    \/ ChromeReturn
    \/ Prefetch
    \/ UserDirsStart
    \/ UserDir
    \/ UserDirsReturn
    \/ NoData
    \/ Aggregate
    \/ HeatmapStart
    \/ HeatmapRow
    \/ HeatmapEnd
    \/ FindPeriods
    \/ Summary

Spec == Init /\ [][Next]_vars

\* the interpreter always takes the next step of a run that has not ended
LiveSpec == Spec /\ WF_vars(Next)

----------------------------------------------------------------------------
(* get_idle_time on its own: the two ticks are drawn, then it is applied *)

IdleInit ==
    /\ pc = "idle"
    /\ days \in DaysChoices
    /\ gap \in GapChoices
    /\ all_timestamps = <<>>
    /\ timestamps = <<>>
    /\ k = 0
    /\ raw = <<>>
    /\ current = 0
    /\ periods = <<>>
    /\ summary = NoSummary
    /\ out = {}
    /\ error = "none"
    /\ \E last \in LastInputs, e \in Elapsed :
          idle = [dwTime |-> last, elapsed |-> e, tick |-> tick_after(last, e),
                  seconds |-> NoIdle.seconds]

\* main, line 294
GetIdleTime ==
    /\ pc = "idle"
    /\ idle' = [idle EXCEPT !.seconds = get_idle_time(idle.tick, idle.dwTime)]
    /\ pc' = "idle_done"
    /\ UNCHANGED <<days, gap, all_timestamps, timestamps, k, raw, current,
                   periods, summary, out, error>>

IdleNext == GetIdleTime

IdleSpec == IdleInit /\ [][IdleNext]_vars

----------------------------------------------------------------------------
(* Properties *)

\* the run is past line 340: the Timeline is built
TimelineBuilt == raw # <<>>

\* the run is past line 351: the Periods are computed
PeriodsComputed == raw # <<>> /\ pc \in {"summary", "done"}

\* the run is past line 327: every adapter has returned
AdaptersReturned ==
    \/ pc \in {"collected", "heatmap", "heatmap_loop", "find", "summary", "done"}
    \/ error = "IndexError"

\* what the adapters supplied: all_timestamps as it is at line 329 (its
\* sorted copy once the Timeline has replaced it)
Collected == IF raw # <<>> THEN raw ELSE all_timestamps

PeriodIndexes == 1..Len(periods)

\* C1: the Timeline is strictly ascending and consecutive entries are more
\* than 60 seconds apart; a separation of exactly 60 s never survives.
DedupInvariant ==
    TimelineBuilt =>
        \A i \in 2..Len(all_timestamps) :
            /\ all_timestamps[i - 1] < all_timestamps[i]
            /\ all_timestamps[i] - all_timestamps[i - 1] > 60

\* two collected timestamps exactly 60 s apart, and a Timeline of two entries
DedupInvariantWitness ==
    /\ pc = "done"
    /\ \E i \in 2..Len(raw) : raw[i] - raw[i - 1] = 60
    /\ Len(all_timestamps) >= 2

ThreeTierSummary ==
    (pc = "done" /\ TimelineBuilt) =>
        LET sleeps == {j \in PeriodIndexes : periods[j].is_likely_sleep}
            reports(j) == /\ Len(summary.shown) = 1
                          /\ summary.shown[1].stopped = periods[j].sleep_at
                          /\ summary.shown[1].resumed = periods[j].wake_at
        IN  IF sleeps # {}
            THEN /\ summary.kind = "sleep"
                 /\ \E j \in sleeps :
                       /\ reports(j)
                       /\ \A i \in sleeps :
                              periods[i].sleep_at <= periods[j].sleep_at
            ELSE IF periods # <<>>
            THEN summary.kind = "idle" /\ reports(Len(periods))
            ELSE summary.kind = "undetermined" /\ summary.shown = <<>>

\* two likely-sleep Periods, the earlier one longer, and the summary made
ThreeTierSummaryWitness ==
    /\ pc = "done"
    /\ summary.kind = "sleep"
    /\ \E i, j \in PeriodIndexes :
          /\ i < j
          /\ periods[i].is_likely_sleep /\ periods[j].is_likely_sleep
          /\ periods[i].wake_at - periods[i].sleep_at
                 > periods[j].wake_at - periods[j].sleep_at

\* lines 333-396 applied to a collected list
analysis(collected, min_gap_hours) ==
    LET tl == dedup(sort_all(collected))
        ps == find_sleep_periods(tl, min_gap_hours)
    IN  <<tl, ps, last_night(ps)>>

orderings(s) ==
    {[i \in 1..Len(s) |-> s[f[i]]] : f \in Permutations(1..Len(s))}

\* C5: the Timeline, the Periods with their labels and the summary of a run
\* are those of every other order in which the same timestamps can arrive.
OrderIndependence ==
    (pc = "done" /\ TimelineBuilt) =>
        \A q \in orderings(raw) :
            analysis(q, gap) = <<all_timestamps, periods, summary>>

\* three different timestamps collected, and a Period found
OrderIndependenceWitness ==
    /\ pc = "done"
    /\ Cardinality({raw[i] : i \in 1..Len(raw)}) >= 3
    /\ periods # <<>>

\* C6: every Period has end > start, a duration that is the separation of
\* its two timestamps, and a duration of at least the --gap of the run.
PeriodInvariant ==
    \A j \in PeriodIndexes :
        LET p == periods[j]
        IN  /\ p.wake_at > p.sleep_at
            /\ p.duration_hours.num * 3600
                   = (p.wake_at - p.sleep_at) * p.duration_hours.den
            /\ p.duration_hours.num >= gap * p.duration_hours.den

\* a Period of 61 seconds under --gap 0
PeriodInvariantWitness ==
    /\ gap = 0
    /\ \E j \in PeriodIndexes : periods[j].wake_at - periods[j].sleep_at = 61

\* C7: no failure inside an adapter (permission denied when listing or
\* stat-ing, missing directory, unreadable database) leaves the adapter.
AdapterFailuresNonFatal == error # "PermissionError"

\* C8 as stated: with nothing collected the run makes the summary, which
\* reports that the pattern could not be determined.
EmptyInputUndetermined ==
    (pc = "done" /\ Collected = <<>>) =>
        periods = <<>> /\ summary.kind = "undetermined"

\* C8 amended: with nothing collected the run reports "no activity data",
\* has no Periods and ends before any summary; the "could not determine"
\* summary is made only by a run that collected something.
EmptyInputNoData ==
    /\ error # "IndexError"
    /\ (pc = "done" /\ Collected = <<>>) =>
           /\ out = {"no_activity_data"}
           /\ periods = <<>>
           /\ summary = NoSummary
    /\ summary.kind = "undetermined" => Collected # <<>>

\* a run that ended with nothing collected
EmptyInputNoDataWitness ==
    pc = "done" /\ Collected = <<>> /\ "no_activity_data" \in out

\* C9 as stated: with fewer than 2 timestamps collected the run has no
\* Periods and reports "no activity data".
InsufficientDataNoActivity ==
    (pc = "done" /\ Len(Collected) < 2) =>
        periods = <<>> /\ "no_activity_data" \in out

\* C9 amended: with fewer than 2 timestamps collected the run has no Periods
\* and ends without error; with none it reports "no activity data", with
\* exactly one it reports "no gaps found" and an undetermined pattern.
InsufficientData ==
    /\ error # "IndexError"
    /\ (AdaptersReturned /\ Len(Collected) < 2) => periods = <<>>
    /\ (pc = "done" /\ Len(Collected) = 0) =>
           "no_activity_data" \in out /\ "no_gaps" \notin out
    /\ (pc = "done" /\ Len(Collected) = 1) =>
           /\ "no_activity_data" \notin out
           /\ "no_gaps" \in out
           /\ summary.kind = "undetermined"

\* a run that ended with exactly one timestamp collected
InsufficientDataWitness == pc = "done" /\ Len(Collected) = 1

Outcomes == {"no_activity_data", "no_gaps", "period_listing"}

\* C10: a run whose adapters have returned ends, and ends with exactly one
\* of: "no activity data" (nothing collected), "no gaps" (a Timeline and no
\* Period), the Period listing; the first two never appear together.
CompletesWithOneOutcome ==
    /\ [](pc = "done" =>
            /\ Cardinality(out \cap Outcomes) = 1
            /\ "no_activity_data" \in out <=> Collected = <<>>
            /\ "no_gaps" \in out <=> (TimelineBuilt /\ periods = <<>>)
            /\ "period_listing" \in out <=> periods # <<>>)
    /\ []~({"no_activity_data", "no_gaps"} \subseteq out)
    /\ (pc = "collected" ~> pc = "done")

\* a run that printed heatmap rows and ended with "no gaps"
CompletesWithOneOutcomeWitness ==
    pc = "done" /\ current > Now /\ "no_gaps" \in out

RawValues == {raw[i] : i \in 1..Len(raw)}

TimelineValues == {all_timestamps[i] : i \in 1..Len(all_timestamps)}

Least(S) == CHOOSE x \in S : \A y \in S : x <= y

Greatest(S) == CHOOSE x \in S : \A y \in S : y <= x

\* the reference rule: keep the earliest; of the rest, drop what is at most
\* 60 s after it; go on with what is left
RECURSIVE GreedyKeep(_)
GreedyKeep(S) ==
    IF S = {} THEN <<>>
    ELSE LET m == Least(S)
         IN  <<m>> \o GreedyKeep({x \in S : x - m > 60})

\* C11: the Timeline is what the rule "keep the earliest, then keep a
\* timestamp iff it is more than 60 s after the last kept one" gives: a
\* subsequence of the sorted input that starts with its minimum, each later
\* value kept iff more than 60 s after the kept entry before it.
GreedyLastKept ==
    TimelineBuilt =>
        /\ all_timestamps = GreedyKeep(RawValues)
        /\ all_timestamps[1] = Least(RawValues)
        /\ TimelineValues \subseteq RawValues
        /\ \A i \in 2..Len(all_timestamps) :
               all_timestamps[i - 1] < all_timestamps[i]
        /\ \A x \in RawValues \ {Least(RawValues)} :
               x \in TimelineValues
                   <=> x - Greatest({t \in TimelineValues : t < x}) > 60

\* a chain: three collected timestamps, each at most 60 s after the one
\* before, the last more than 60 s after the first and kept
GreedyLastKeptWitness ==
    /\ pc = "done"
    /\ Len(raw) = 3
    /\ raw[2] - raw[1] <= 60 /\ raw[2] > raw[1]
    /\ raw[3] - raw[2] <= 60
    /\ raw[3] - raw[1] > 60
    /\ all_timestamps = <<raw[1], raw[3]>>

\* C12 as stated: no collected timestamp lies strictly between the start and
\* the end of a reported Period.
NoActivityInsidePeriod ==
    PeriodsComputed =>
        \A j \in PeriodIndexes :
            \A x \in RawValues :
                ~(periods[j].sleep_at < x /\ x < periods[j].wake_at)

\* C12 amended: start and end of a Period are collected timestamps and
\* consecutive Timeline entries: no Timeline entry lies strictly between
\* them, and a collected timestamp strictly between them is one that the
\* dedup dropped, at most 60 s after start.
NoTimelineEntryInsidePeriod ==
    PeriodsComputed =>
        \A j \in PeriodIndexes :
            /\ periods[j].sleep_at \in RawValues
            /\ periods[j].wake_at \in RawValues
            /\ \A t \in TimelineValues :
                   ~(periods[j].sleep_at < t /\ t < periods[j].wake_at)
            /\ \A x \in RawValues :
                   (periods[j].sleep_at < x /\ x < periods[j].wake_at)
                       => x - periods[j].sleep_at <= 60

\* a Period with a dropped timestamp inside it
NoTimelineEntryInsidePeriodWitness ==
    /\ pc = "done"
    /\ Len(raw) = 3 /\ Len(all_timestamps) = 2
    /\ \E j \in PeriodIndexes : \E x \in RawValues :
          periods[j].sleep_at < x /\ x < periods[j].wake_at

\* C13: the Periods are in strictly ascending start order and consecutive
\* Periods do not overlap: p.end <= q.start.
PeriodsOrdered ==
    \A j \in 2..Len(periods) :
        /\ periods[j - 1].sleep_at < periods[j].sleep_at
        /\ periods[j - 1].wake_at <= periods[j].sleep_at

\* two Periods that share an endpoint
PeriodsOrderedWitness ==
    /\ pc = "done"
    /\ Len(periods) = 2
    /\ periods[1].wake_at = periods[2].sleep_at

\* C14: every collected timestamp is a Timeline entry or at most 60 s after
\* the nearest Timeline entry before it; for every Period, end is a collected
\* timestamp, the last collected timestamp before end is at most 60 s after
\* start, and the duration exceeds the gap in the collected timestamps by at
\* most 60 s.
BoundedDedupError ==
    /\ TimelineBuilt =>
           \A x \in RawValues :
               \/ x \in TimelineValues
               \/ LET before == {t \in TimelineValues : t < x}
                  IN  before # {} /\ x - Greatest(before) <= 60
    /\ PeriodsComputed =>
           \A j \in PeriodIndexes :
               LET p == periods[j]
                   last_raw == Greatest({x \in RawValues : x < p.wake_at})
                   real_gap == p.wake_at - last_raw
               IN  /\ p.wake_at \in RawValues
                   /\ p.sleep_at <= last_raw
                   /\ last_raw - p.sleep_at <= 60
                   /\ (p.wake_at - p.sleep_at) - real_gap \in 0..60

\* a Period reported 60 s longer than the gap in the collected timestamps
BoundedDedupErrorWitness ==
    /\ pc = "done"
    /\ \E j \in PeriodIndexes :
          Greatest({x \in RawValues : x < periods[j].wake_at})
              = periods[j].sleep_at + 60

\* C15: get_idle_time yields (tick - lastInput) mod 2^32 milliseconds: never
\* negative, and the time that really passed since the last input, also
\* when the tick counter has wrapped past 2^32 since then.
IdleWraparound ==
    pc = "idle_done" =>
        /\ idle.seconds.num = idle.elapsed
        /\ idle.seconds.num.hi \in 0..(Half - 1)
        /\ idle.seconds.num.lo \in 0..(Half - 1)
        /\ idle.seconds.den = 1000

\* the counter has wrapped: the tick read is below the tick of the last input
IdleWraparoundWitness ==
    /\ pc = "idle_done"
    /\ idle.tick.hi < idle.dwTime.hi
    /\ idle.elapsed = Word(0, 1000)
    /\ idle.seconds.num = Word(0, 1000)

====
